---- MODULE Spec2Model ----
(***************************************************************************)
(* Model of the engine.io transport layer:                                 *)
(*   - lib/transports/websocket.ts : the WebSocket (full-duplex) transport *)
(*   - lib/transports/index.ts     : the transport registry and the        *)
(*                                   polymorphic "polling" constructor     *)
(* JavaScript values are tagged records [t, v]: t is the runtime type tag  *)
(* and v a sequence of numbers (code points of a string, bytes of a        *)
(* Buffer, empty otherwise).                                               *)
(***************************************************************************)
EXTENDS Integers, Sequences, FiniteSets, TLC

(* ------------------------------ bounds -------------------------------- *)
MaxSends == 2
MaxWrites == 3
MaxRichLen == 1
MaxThreshold == 3
MaxCloseCalls == 2
MaxEvents == 2
MaxRequests == 4
MaxBatch == 2
MaxConstructions == 2

(* -------------------------- JavaScript values ------------------------- *)
Undefined == [t |-> "undefined", v |-> <<>>]
JsNull == [t |-> "null", v |-> <<>>]
Str(s) == [t |-> "string", v |-> s]
Buf(b) == [t |-> "buffer", v |-> b]
JsArray(a) == [t |-> "array", v |-> a]
JsFunction == [t |-> "function", v |-> <<>>]
JsTrue == [t |-> "boolean", v |-> <<1>>]
JsFalse == [t |-> "boolean", v |-> <<0>>]

\* the typeof operator
TypeOf(x) ==
  CASE x.t = "undefined" -> "undefined"
    [] x.t = "string" -> "string"
    [] x.t = "boolean" -> "boolean"
    [] x.t = "function" -> "function"
    [] OTHER -> "object"

\* ToBoolean, as `if (x)`, `x && ...` apply it
Truthy(x) ==
  CASE x.t = "undefined" -> FALSE
    [] x.t = "null" -> FALSE
    [] x.t = "string" -> x.v # <<>>
    [] x.t = "boolean" -> x.v = <<1>>
    [] OTHER -> TRUE

\* number of bytes of one code point in UTF-8
Utf8Width(c) == IF c < 128 THEN 1 ELSE IF c < 2048 THEN 2 ELSE 3

RECURSIVE Utf8Bytes(_)
Utf8Bytes(s) == IF s = <<>> THEN 0 ELSE Utf8Width(Head(s)) + Utf8Bytes(Tail(s))

\* Buffer.byteLength(str): the UTF-8 length of a string
BufferByteLength(x) == Utf8Bytes(x.v)

\* "string" === typeof data ? Buffer.byteLength(data) : data.length
PayloadLen(data) == IF TypeOf(data) = "string" THEN BufferByteLength(data) ELSE Len(data.v)

\* Buffer.prototype.toString(): UTF-8 decoding (one- and two-byte sequences;
\* anything else decodes to U+FFFD)
RECURSIVE Utf8Decode(_)
Utf8Decode(b) ==
  IF b = <<>> THEN <<>>
  ELSE IF Head(b) < 128 THEN <<Head(b)>> \o Utf8Decode(Tail(b))
  ELSE IF Head(b) >= 194 /\ Head(b) < 224 /\ Len(b) >= 2 /\ b[2] >= 128 /\ b[2] < 192
       THEN <<(Head(b) - 192) * 64 + (b[2] - 128)>> \o Utf8Decode(Tail(Tail(b)))
  ELSE <<65533>> \o Utf8Decode(Tail(b))

\* base64 of a Buffer of zero bytes: "AAAA" per three bytes, then "AA==" or "AAA="
RECURSIVE Base64Zero(_)
Base64Zero(n) ==
  IF n = 0 THEN <<>>
  ELSE IF n = 1 THEN <<65, 65, 61, 61>>
  ELSE IF n = 2 THEN <<65, 65, 65, 61>>
  ELSE <<65, 65, 65, 65>> \o Base64Zero(n - 3)

(* ------------------------------- packets ------------------------------ *)
NoOptions == Undefined
Options(c, pre, frame) ==
  [t |-> "object", compress |-> c, wsPreEncoded |-> pre, wsPreEncodedFrame |-> frame]
Packet(type, data, options) == [type |-> type, data |-> data, options |-> options]

\* packet.options.<field>: a field of an absent options record is never read
\* by the code without a guard, so the helper is total only for convenience
OptField(options, f) == IF options.t = "object" THEN options[f] ELSE Undefined

\* engine.io-parser PACKET_TYPES
PacketTypeChar(type) ==
  CASE type = "open" -> 48
    [] type = "close" -> 49
    [] type = "ping" -> 50
    [] type = "pong" -> 51
    [] type = "message" -> 52
    [] type = "upgrade" -> 53
    [] OTHER -> 54

\* parser.encodePacket(packet, supportsBinary, callback): the value handed to
\* the callback, which the codec invokes before it returns
encodePacket(packet, binary) ==
  IF packet.data.t = "buffer"
  THEN IF binary THEN packet.data
       ELSE Str(<<98>> \o Base64Zero(Len(packet.data.v)))
  ELSE Str(<<PacketTypeChar(packet.type)>>
           \o (IF Truthy(packet.data) THEN packet.data.v ELSE <<>>))

\* a precomputed frame (WebSocket.Sender.frame() output), opaque to the transport
Frame1 == JsArray(<<129, 1, 52>>)

\* packets of the life-cycle specification: one per dispatch path
LivePackets ==
  { Packet("message", Str(<<97>>), NoOptions),
    Packet("message", Str(<<97>>), Options(JsTrue, Str(<<52, 97>>), Undefined)),
    Packet("message", Str(<<97>>), Options(Undefined, Undefined, Frame1)) }

\* packets of the dispatch specification: every combination of the option fields
RichOptions ==
  {NoOptions} \cup
  { Options(c, pre, fr) :
      c \in {Undefined, JsTrue, JsFalse},
      pre \in {Undefined, Str(<<>>), Str(<<233>>), Buf(<<52>>)},
      fr \in {Undefined, JsNull, Frame1} }
RichPackets ==
  { Packet("message", d, o) : d \in {Str(<<233>>), Buf(<<0>>)}, o \in RichOptions }
  \cup { Packet("noop", Undefined, o) : o \in {NoOptions, Options(JsTrue, Undefined, Undefined)} }

SeqsUpTo(S, n) == UNION { [1..k -> S] : k \in 0..n }

(* -------------------------------- state ------------------------------- *)
VARIABLES
  writable,           \* Transport.writable
  perMessageDeflate,  \* WebSocket.perMessageDeflate
  socket,             \* the shape of req.websocket: its _sender.sendFrame member
  supportsBinary,     \* Transport.supportsBinary
  closeListener,      \* whether the once("close") listener is still registered
  sends,              \* the send calls so far: the packets and writable on entry
  wire,               \* the write invocations the channel received, in order
  cbStatus,           \* per write invocation: "pending", "ok" or "err"
  codec,              \* the encodePacket invocations
  drains,             \* the "drain" notifications emitted
  heap,               \* the options objects: the packets' own and those send creates
  errors,             \* the onError invocations
  closeCalls,         \* invocations of socket.close()
  fnCalls,            \* invocations of doClose's callback
  doCloses,           \* the doClose calls so far: the fn argument of each
  closeEvents,        \* "close" events the socket emitted
  onCloseCalls,       \* invocations of the base close handler
  messages,           \* "message" events the socket emitted
  dataLog,            \* invocations of the base inbound-data handler
  errorEvents,        \* "error" events the socket emitted
  requests,           \* requests given to the polling constructor
  created,            \* the instances the polling constructor produced
  wsRequests,         \* requests given to the registry's websocket constructor
  wsOutcomes          \* what each of these constructions ended with

sendVars == <<writable, sends, wire, cbStatus, codec, drains, heap>>
configVars == <<perMessageDeflate, socket, supportsBinary>>
closeVars == <<closeListener, closeCalls, fnCalls, doCloses, closeEvents, onCloseCalls>>
inboundVars == <<messages, dataLog, errorEvents>>
factoryVars == <<requests, created, wsRequests, wsOutcomes>>
vars == <<sendVars, configVars, errors, closeVars, inboundVars, factoryVars>>

NullDeflate == [enabled |-> FALSE, threshold |-> 0]
Deflate(n) == [enabled |-> TRUE, threshold |-> n]

\* socket._sender.sendFrame: no _sender, a _sender without sendFrame, a
\* sendFrame that is no function, a callable sendFrame
SocketShapes == {"noSender", "noSendFrame", "notCallable", "function"}
SendFrameOf(shape) ==
  CASE shape = "function" -> JsFunction
    [] shape = "notCallable" -> JsTrue
    [] OTHER -> Undefined

(* ----------------------------- constructor ---------------------------- *)
\* mutant: the constructor leaves writable false
constructorNotWritable ==
  /\ writable = FALSE
  /\ perMessageDeflate = NullDeflate
  /\ closeListener = TRUE
  /\ sends = <<>> /\ wire = <<>> /\ cbStatus = <<>> /\ codec = <<>>
  /\ drains = <<>> /\ errors = <<>> /\ heap = <<>>
  /\ closeCalls = 0 /\ fnCalls = 0 /\ doCloses = <<>>
  /\ closeEvents = 0 /\ onCloseCalls = 0
  /\ messages = <<>> /\ dataLog = <<>> /\ errorEvents = 0
  /\ requests = <<>> /\ created = <<>>
  /\ wsRequests = <<>> /\ wsOutcomes = <<>>

constructor ==
  /\ writable = TRUE
  /\ perMessageDeflate = NullDeflate
  /\ closeListener = TRUE
  /\ sends = <<>> /\ wire = <<>> /\ cbStatus = <<>> /\ codec = <<>>
  /\ drains = <<>> /\ errors = <<>> /\ heap = <<>>
  /\ closeCalls = 0 /\ fnCalls = 0 /\ doCloses = <<>>
  /\ closeEvents = 0 /\ onCloseCalls = 0
  /\ messages = <<>> /\ dataLog = <<>> /\ errorEvents = 0
  /\ requests = <<>> /\ created = <<>>
  /\ wsRequests = <<>> /\ wsOutcomes = <<>>

Init ==
  /\ constructor
  /\ socket = "function"
  /\ supportsBinary = TRUE

InitDispatch ==
  /\ constructor
  /\ socket \in SocketShapes
  /\ supportsBinary \in BOOLEAN

(* -------------------------------- send -------------------------------- *)
\* mutant: the fast path ignores whether compression is enabled
canSendPreEncodedFrameAnyDeflate(packet) ==
  /\ TypeOf(SendFrameOf(socket)) = "function"
  /\ OptField(packet.options, "wsPreEncodedFrame") # Undefined

canSendPreEncodedFrame(packet) ==
  /\ ~perMessageDeflate.enabled
  /\ TypeOf(SendFrameOf(socket)) = "function"
  /\ OptField(packet.options, "wsPreEncodedFrame") # Undefined

\* mutant: the raw-frame path is tried before the pre-encoded string
dispatchPathFrameFirst(packet) ==
  IF canSendPreEncodedFrame(packet) THEN "sendFrame"
  ELSE IF Truthy(packet.options) /\ TypeOf(packet.options.wsPreEncoded) = "string"
  THEN "wsPreEncoded"
  ELSE "encodePacket"

\* the branch of the if / else if / else that ends the loop body
dispatchPath(packet) ==
  IF Truthy(packet.options) /\ TypeOf(packet.options.wsPreEncoded) = "string"
  THEN "wsPreEncoded"
  ELSE IF canSendPreEncodedFrame(packet) THEN "sendFrame"
  ELSE "encodePacket"

\* const opts = {}; if (packet.options) opts.compress = packet.options.compress
\* ("absent": the record has no compress member)
newOpts(packet) ==
  IF Truthy(packet.options)
  THEN [passed |-> TRUE, compress |-> packet.options.compress.t, value |-> packet.options.compress.v]
  ELSE [passed |-> TRUE, compress |-> "absent", value |-> <<>>]

\* mutant: the threshold rule yields to a compress flag the packet set
socketSendAdvisoryWins(data, opts, cb) ==
  LET o == IF /\ perMessageDeflate.enabled
              /\ PayloadLen(data) < perMessageDeflate.threshold
              /\ opts.compress # "boolean"
           THEN [opts EXCEPT !.compress = "boolean", !.value = <<0>>]
           ELSE opts
  IN [via |-> "send", data |-> data, opts |-> o, cb |-> cb]

\* the inner closure `send`: the threshold rule, then socket.send(data, opts, onSent)
socketSend(data, opts, cb) ==
  LET o == IF perMessageDeflate.enabled /\ PayloadLen(data) < perMessageDeflate.threshold
           THEN [opts EXCEPT !.compress = "boolean", !.value = <<0>>]
           ELSE opts
  IN [via |-> "send", data |-> data, opts |-> o, cb |-> cb]

\* mutant: the raw-frame entry point is given an options record
\* (sendFrame(frame, opts, onSent))
senderSendFrameWithOptions(frame, cb) ==
  [via |-> "sendFrame", data |-> frame,
   opts |-> [passed |-> TRUE, compress |-> "absent", value |-> <<>>], cb |-> cb]

\* socket._sender.sendFrame(frame, onSent): no options record
senderSendFrame(frame, cb) ==
  [via |-> "sendFrame", data |-> frame,
   opts |-> [passed |-> FALSE, compress |-> "absent", value |-> <<>>], cb |-> cb]

\* an options object of the caller, as the heap holds it
OptionsObject(options) ==
  [kind |-> "packetOptions", compress |-> options.compress.t, value |-> options.compress.v]

\* the packets' own options objects: one object per packet that has options
\* (reference 0: the packet has none)
optionRefs(h, packets) ==
  [i \in 1..Len(packets) |->
     IF Truthy(packets[i].options)
     THEN Len(h) + Cardinality({ j \in 1..i : Truthy(packets[j].options) })
     ELSE 0]
optionObjects(packets) ==
  LET idx == { i \in 1..Len(packets) : Truthy(packets[i].options) }
  IN [n \in 1..Cardinality(idx) |->
        LET i == CHOOSE i \in idx : Cardinality({ j \in idx : j <= i }) = n
        IN OptionsObject(packets[i].options)]

\* mutant: the packet's own options object is reused when there is one
\* (const opts = packet.options || {})
allocOptsAliasPacket(h, packetRef) ==
  IF packetRef # 0
  THEN [heap |-> h, ref |-> packetRef]
  ELSE [heap |-> Append(h, [kind |-> "opts", compress |-> "absent", value |-> <<>>]),
        ref |-> Len(h) + 1]

\* const opts = {} inside the loop body: a new object in every iteration
allocOpts(h, packetRef) ==
  [heap |-> Append(h, [kind |-> "opts", compress |-> "absent", value |-> <<>>]),
   ref |-> Len(h) + 1]

\* an assignment to opts.compress, seen in the object opts refers to
storeCompress(h, ref, opts) ==
  [h EXCEPT ![ref] = [@ EXCEPT !.compress = opts.compress, !.value = opts.value]]

\* one iteration of the loop over acc = [wire, codec, heap, refs]
sendOne(acc, packet, i, isLast, batch) ==
  LET cb == [batch |-> batch, i |-> i, isLast |-> isLast]
      a == allocOpts(acc.heap, acc.refs[i + 1])
      opts == newOpts(packet)
      copied == IF Truthy(packet.options) THEN storeCompress(a.heap, a.ref, opts) ELSE a.heap
      path == dispatchPath(packet)
      sent(data) ==
        LET e == socketSend(data, opts, cb)
        IN [wire |-> Append(acc.wire, [via |-> e.via, data |-> e.data, opts |-> e.opts,
                                       cb |-> e.cb, ref |-> a.ref]),
            heap |-> IF e.opts = opts THEN copied ELSE storeCompress(copied, a.ref, e.opts)]
  IN CASE path = "wsPreEncoded" ->
            [acc EXCEPT !.wire = sent(packet.options.wsPreEncoded).wire,
                        !.heap = sent(packet.options.wsPreEncoded).heap]
       [] path = "sendFrame" ->
            LET e == senderSendFrame(packet.options.wsPreEncodedFrame, cb)
            IN [acc EXCEPT !.wire = Append(@, [via |-> e.via, data |-> e.data, opts |-> e.opts,
                                               cb |-> e.cb, ref |-> 0]),
                           !.heap = copied]
       [] OTHER ->
            [acc EXCEPT !.codec = Append(@, [batch |-> batch, i |-> i]),
                        !.wire = sent(encodePacket(packet, supportsBinary)).wire,
                        !.heap = sent(encodePacket(packet, supportsBinary)).heap]

\* mutant: the loop stops one packet early (i + 1 < packets.length)
RECURSIVE sendLoopSkipsLast(_, _, _, _)
sendLoopSkipsLast(acc, packets, i, batch) ==
  IF i + 1 < Len(packets)
  THEN sendLoopSkipsLast(sendOne(acc, packets[i + 1], i, i + 1 = Len(packets), batch),
                         packets, i + 1, batch)
  ELSE acc

\* for (let i = 0; i < packets.length; i++)
RECURSIVE sendLoop(_, _, _, _)
sendLoop(acc, packets, i, batch) ==
  IF i < Len(packets)
  THEN sendLoop(sendOne(acc, packets[i + 1], i, i + 1 = Len(packets), batch),
                packets, i + 1, batch)
  ELSE acc

\* the fields of the transport that send and onSent work on
sendState ==
  [writable |-> writable, sends |-> sends, wire |-> wire, cbStatus |-> cbStatus,
   codec |-> codec, drains |-> drains, heap |-> heap]

\* mutant: send does not take writable away (this.writable = false lost)
sendFromKeepsWritable(st, packets) ==
  LET batch == Len(st.sends) + 1
      refs == optionRefs(st.heap, packets)
      acc == sendLoop([wire |-> st.wire, codec |-> st.codec,
                       heap |-> st.heap \o optionObjects(packets), refs |-> refs],
                      packets, 0, batch)
  IN [st EXCEPT
        !.sends = Append(@, [packets |-> packets, writable |-> st.writable,
                             deflate |-> perMessageDeflate, optionRefs |-> refs]),
        !.wire = acc.wire,
        !.heap = acc.heap,
        !.codec = acc.codec,
        !.cbStatus = @ \o [k \in 1..(Len(acc.wire) - Len(st.wire)) |-> "pending"]]

\* the body of send, run from the state st
sendFrom(st, packets) ==
  LET batch == Len(st.sends) + 1
      refs == optionRefs(st.heap, packets)
      acc == sendLoop([wire |-> st.wire, codec |-> st.codec,
                       heap |-> st.heap \o optionObjects(packets), refs |-> refs],
                      packets, 0, batch)
  IN [st EXCEPT
        !.writable = FALSE,
        !.sends = Append(@, [packets |-> packets, writable |-> st.writable,
                             deflate |-> perMessageDeflate, optionRefs |-> refs]),
        !.wire = acc.wire,
        !.heap = acc.heap,
        !.codec = acc.codec,
        !.cbStatus = @ \o [k \in 1..(Len(acc.wire) - Len(st.wire)) |-> "pending"]]

send(packets) ==
  LET r == sendFrom(sendState, packets)
  IN /\ writable' = r.writable
     /\ sends' = r.sends
     /\ wire' = r.wire
     /\ heap' = r.heap
     /\ codec' = r.codec
     /\ cbStatus' = r.cbStatus
     /\ UNCHANGED <<drains, errors, configVars, closeVars, inboundVars, factoryVars>>

\* what a "drain" listener of the upper layer does while emit runs: nothing,
\* or a send call
NoResend == [calls |-> FALSE, packets |-> <<>>]
Resend(packets) == [calls |-> TRUE, packets |-> packets]

\* mutant: the notification is emitted before the flag is set
\* (this.emit("drain"); this.writable = true)
releaseAndDrainEmitFirst(st, k, listener) ==
  LET s1 == [st EXCEPT !.drains = Append(@, [batch |-> st.wire[k].cb.batch,
                                             writable |-> st.writable])]
      s2 == IF listener.calls THEN sendFrom(s1, listener.packets) ELSE s1
  IN [s2 EXCEPT !.writable = TRUE]

\* this.writable = true; this.emit("drain"): emit runs the listeners before it
\* returns
releaseAndDrain(st, k, listener) ==
  LET s1 == [st EXCEPT !.writable = TRUE]
      s2 == [s1 EXCEPT !.drains = Append(@, [batch |-> s1.wire[k].cb.batch,
                                             writable |-> s1.writable])]
  IN IF listener.calls THEN sendFrom(s2, listener.packets) ELSE s2

\* mutant: a failed packet of the batch keeps the last callback from releasing
\* (a failed flag set in the error branch and tested with isLast)
onSentErrorBlocks(k, err) ==
  /\ cbStatus[k] = "pending"
  /\ cbStatus' = [cbStatus EXCEPT ![k] = IF err THEN "err" ELSE "ok"]
  /\ IF err
     THEN /\ errors' = Append(errors, [msg |-> "write error", from |-> k])
          /\ UNCHANGED <<writable, drains>>
     ELSE IF /\ wire[k].cb.isLast
             /\ \A j \in 1..Len(wire) :
                  wire[j].cb.batch = wire[k].cb.batch => cbStatus[j] # "err"
     THEN /\ writable' = TRUE
          /\ drains' = Append(drains, [batch |-> wire[k].cb.batch, writable |-> writable'])
          /\ UNCHANGED errors
     ELSE UNCHANGED <<writable, drains, errors>>
  /\ UNCHANGED <<sends, wire, codec, heap, configVars, closeVars, inboundVars, factoryVars>>

\* mutant: only the last packet's failure is reported
\* (if (isLast) { if (err) ... else ... })
onSentReportsLastOnly(k, err) ==
  /\ cbStatus[k] = "pending"
  /\ cbStatus' = [cbStatus EXCEPT ![k] = IF err THEN "err" ELSE "ok"]
  /\ IF ~wire[k].cb.isLast
     THEN UNCHANGED <<writable, drains, errors>>
     ELSE IF err
     THEN /\ errors' = Append(errors, [msg |-> "write error", from |-> k])
          /\ UNCHANGED <<writable, drains>>
     ELSE /\ writable' = TRUE
          /\ drains' = Append(drains, [batch |-> wire[k].cb.batch, writable |-> writable'])
          /\ UNCHANGED errors
  /\ UNCHANGED <<sends, wire, codec, heap, configVars, closeVars, inboundVars, factoryVars>>

\* mutant: an error is reported but does not end the callback
\* (if (err) {...} if (isLast) {...}, the else lost)
onSentIgnoresError(k, err) ==
  /\ cbStatus[k] = "pending"
  /\ cbStatus' = [cbStatus EXCEPT ![k] = IF err THEN "err" ELSE "ok"]
  /\ errors' = IF err THEN Append(errors, [msg |-> "write error", from |-> k]) ELSE errors
  /\ IF wire[k].cb.isLast
     THEN /\ writable' = TRUE
          /\ drains' = Append(drains, [batch |-> wire[k].cb.batch, writable |-> writable'])
     ELSE UNCHANGED <<writable, drains>>
  /\ UNCHANGED <<sends, wire, codec, heap, configVars, closeVars, inboundVars, factoryVars>>

\* mutant: every successful callback releases writable (the isLast test lost)
onSentEveryPacket(k, err) ==
  /\ cbStatus[k] = "pending"
  /\ cbStatus' = [cbStatus EXCEPT ![k] = IF err THEN "err" ELSE "ok"]
  /\ IF err
     THEN /\ errors' = Append(errors, [msg |-> "write error", from |-> k])
          /\ UNCHANGED <<writable, drains>>
     ELSE /\ writable' = TRUE
          /\ drains' = Append(drains, [batch |-> wire[k].cb.batch, writable |-> writable'])
          /\ UNCHANGED errors
  /\ UNCHANGED <<sends, wire, codec, heap, configVars, closeVars, inboundVars, factoryVars>>

\* the completion callback of write invocation k, fired by the channel
onSent(k, err) ==
  /\ cbStatus[k] = "pending"
  /\ cbStatus' = [cbStatus EXCEPT ![k] = IF err THEN "err" ELSE "ok"]
  /\ IF err
     THEN /\ errors' = Append(errors, [msg |-> "write error", from |-> k])
          /\ UNCHANGED <<writable, drains>>
     ELSE IF wire[k].cb.isLast
     THEN /\ writable' = releaseAndDrain(sendState, k, NoResend).writable
          /\ drains' = releaseAndDrain(sendState, k, NoResend).drains
          /\ UNCHANGED errors
     ELSE UNCHANGED <<writable, drains, errors>>
  /\ UNCHANGED <<sends, wire, codec, heap, configVars, closeVars, inboundVars, factoryVars>>

\* the last packet's callback fires with success and a "drain" listener calls
\* send before emit returns
onSentDrainSends(k, packets) ==
  /\ cbStatus[k] = "pending"
  /\ wire[k].cb.isLast
  /\ LET r == releaseAndDrain([sendState EXCEPT !.cbStatus[k] = "ok"], k, Resend(packets))
     IN /\ writable' = r.writable
        /\ drains' = r.drains
        /\ sends' = r.sends
        /\ wire' = r.wire
        /\ heap' = r.heap
        /\ codec' = r.codec
        /\ cbStatus' = r.cbStatus
  /\ UNCHANGED <<errors, configVars, closeVars, inboundVars, factoryVars>>

Send ==
  /\ Len(sends) < MaxSends
  /\ \E packets \in SeqsUpTo(LivePackets, MaxWrites) :
       /\ Len(wire) + Len(packets) <= MaxWrites
       /\ send(packets)

Completion == \E k \in 1..Len(wire), err \in BOOLEAN : onSent(k, err)

DrainResend ==
  /\ Len(sends) < MaxSends
  /\ \E k \in 1..Len(wire), packets \in SeqsUpTo(LivePackets, MaxWrites) :
       /\ Len(wire) + Len(packets) <= MaxWrites
       /\ onSentDrainSends(k, packets)

Next == Send \/ Completion \/ DrainResend

Spec == Init /\ [][Next]_vars

(* ------------------------- configuration, dispatch -------------------- *)
\* transport.perMessageDeflate = <server option>: assigned by the owner of the
\* transport after construction and before any traffic
setPerMessageDeflate(value) ==
  /\ sends = <<>>
  /\ perMessageDeflate' = value
  /\ UNCHANGED <<sendVars, socket, supportsBinary, errors, closeVars, inboundVars, factoryVars>>

Configure ==
  \E value \in {NullDeflate} \cup { Deflate(n) : n \in 0..MaxThreshold } :
    setPerMessageDeflate(value)

\* the first send call of a transport, over every shape of packet
SendRich ==
  /\ sends = <<>>
  /\ \E packets \in SeqsUpTo(RichPackets, MaxRichLen) : send(packets)

NextDispatch == Configure \/ SendRich

\* a batch of text messages that differ in their options only, sent once the
\* owner has set perMessageDeflate
OptionsPackets ==
  { Packet("message", Str(<<97>>), o) :
      o \in {NoOptions} \cup
            { Options(c, Undefined, Undefined) : c \in {Undefined, JsTrue, JsFalse} } }

SendOptions ==
  /\ sends = <<>>
  /\ \E packets \in SeqsUpTo(OptionsPackets, MaxBatch) : send(packets)

NextOptions == Configure \/ SendOptions \/ Completion

SpecOptions == Init /\ [][NextOptions]_vars

SpecDispatch == InitDispatch /\ [][NextDispatch]_vars

(* ------------------------- close, error, message ---------------------- *)
\* mutant: the callback is left to the socket's "close" event
doCloseDefersCallback(fn) ==
  /\ closeCalls' = closeCalls + 1
  /\ fnCalls' = fnCalls
  /\ doCloses' = Append(doCloses, fn)
  /\ UNCHANGED <<closeListener, closeEvents, onCloseCalls>>
  /\ UNCHANGED <<sendVars, configVars, errors, inboundVars, factoryVars>>

doClose(fn) ==
  /\ closeCalls' = closeCalls + 1
  /\ fnCalls' = IF Truthy(fn) THEN fnCalls + 1 ELSE fnCalls
  /\ doCloses' = Append(doCloses, fn)
  /\ UNCHANGED <<closeListener, closeEvents, onCloseCalls>>
  /\ UNCHANGED <<sendVars, configVars, errors, inboundVars, factoryVars>>

\* mutant: the close listener is registered with on() and stays registered
socketCloseOn ==
  /\ closeEvents' = closeEvents + 1
  /\ IF closeListener
     THEN onCloseCalls' = onCloseCalls + 1 /\ UNCHANGED closeListener
     ELSE UNCHANGED <<closeListener, onCloseCalls>>
  /\ UNCHANGED <<closeCalls, fnCalls, doCloses>>
  /\ UNCHANGED <<sendVars, configVars, errors, inboundVars, factoryVars>>

\* the socket emits "close": socket.once("close", this.onClose.bind(this))
socketClose ==
  /\ closeEvents' = closeEvents + 1
  /\ IF closeListener
     THEN closeListener' = FALSE /\ onCloseCalls' = onCloseCalls + 1
     ELSE UNCHANGED <<closeListener, onCloseCalls>>
  /\ UNCHANGED <<closeCalls, fnCalls, doCloses>>
  /\ UNCHANGED <<sendVars, configVars, errors, inboundVars, factoryVars>>

\* mutant: the error listener is registered with once() and reports one event
socketErrorOnce ==
  /\ errorEvents' = errorEvents + 1
  /\ errors' = IF errorEvents = 0
                THEN Append(errors, [msg |-> "socket error", from |-> 0])
                ELSE errors
  /\ UNCHANGED <<messages, dataLog>>
  /\ UNCHANGED <<sendVars, configVars, closeVars, factoryVars>>

\* the socket emits "error": socket.on("error", this.onError.bind(this))
socketError ==
  /\ errorEvents' = errorEvents + 1
  /\ errors' = Append(errors, [msg |-> "socket error", from |-> 0])
  /\ UNCHANGED <<messages, dataLog>>
  /\ UNCHANGED <<sendVars, configVars, closeVars, factoryVars>>

\* mutant: the binary flag is ignored (const message = data.toString())
socketMessageAlwaysText(data, isBinary) ==
  /\ messages' = Append(messages, [data |-> data, isBinary |-> isBinary])
  /\ dataLog' = Append(dataLog, Str(Utf8Decode(data.v)))
  /\ UNCHANGED <<sendVars, configVars, errors, errorEvents, closeVars, factoryVars>>

\* the socket emits "message": socket.on("message", (data, isBinary) => ...)
socketMessage(data, isBinary) ==
  LET message == IF isBinary THEN data ELSE Str(Utf8Decode(data.v))
  IN /\ messages' = Append(messages, [data |-> data, isBinary |-> isBinary])
     /\ dataLog' = Append(dataLog, message)
     /\ UNCHANGED <<sendVars, configVars, errors, errorEvents, closeVars, factoryVars>>

SocketErrors == { i \in 1..Len(errors) : errors[i].msg = "socket error" }

DoClose ==
  /\ Len(doCloses) < MaxCloseCalls
  /\ \E fn \in {Undefined, JsFunction} : doClose(fn)

SocketClose == closeEvents < MaxEvents /\ socketClose

SocketError == errorEvents < MaxEvents /\ socketError

SocketMessage ==
  /\ Len(messages) < MaxEvents
  /\ \E data \in {Buf(<<97>>), Buf(<<195, 169>>)}, isBinary \in BOOLEAN :
       socketMessage(data, isBinary)

NextEvents == DoClose \/ SocketClose \/ SocketError \/ SocketMessage

SpecEvents == Init /\ [][NextEvents]_vars

(* ---------------------- one batch and socket events ------------------- *)
\* the first send call of a transport, over the life-cycle packets
FirstSend ==
  /\ sends = <<>>
  /\ \E packets \in SeqsUpTo(LivePackets, MaxBatch) : send(packets)

NextIO == FirstSend \/ Completion \/ SocketError \/ SocketMessage

SpecIO == Init /\ [][NextIO]_vars

(* ------------------------------- registry ----------------------------- *)
\* mutant: the test is the truth value of j (if (req._query.j))
pollingVariantTruthy(req) == IF Truthy(req.query.j) THEN "JSONP" ELSE "XHR"

\* the class the polling constructor instantiates for a request
pollingVariant(req) == IF "string" = TypeOf(req.query.j) THEN "JSONP" ELSE "XHR"

polling(req) ==
  /\ requests' = Append(requests, req)
  /\ created' = Append(created, [variant |-> pollingVariant(req), req |-> req])
  /\ UNCHANGED <<wsRequests, wsOutcomes>>
  /\ UNCHANGED <<sendVars, configVars, errors, closeVars, inboundVars>>

\* req._query.j: absent, a string (possibly empty), or an array when repeated
QueryJ == {Undefined, Str(<<>>), Str(<<51>>), JsArray(<<51, 52>>)}

Polling ==
  /\ Len(requests) < MaxRequests
  /\ \E j \in QueryJ : polling([query |-> [j |-> j]])

\* req.websocket: absent, null, an object that is no event emitter, a socket
JsObject == [t |-> "object", v |-> <<>>]
JsSocket == [t |-> "socket", v |-> <<>>]
RequestSockets == {Undefined, JsNull, JsObject, JsSocket}

\* mutant: the listeners are bound only when there is a socket (this.socket?.on)
newWebSocketOptionalSocket(req) ==
  IF req.websocket.t \in {"undefined", "null"}
  THEN [result |-> "instance", listeners |-> 0, writable |-> TRUE]
  ELSE IF req.websocket.t # "socket"
  THEN [result |-> "throw", listeners |-> 0, writable |-> FALSE]
  ELSE [result |-> "instance", listeners |-> 3, writable |-> TRUE]

\* new WebSocket(req): this.socket = req.websocket; this.socket.on(...) throws
\* a TypeError when the socket is undefined or null or has no callable on;
\* otherwise the three listeners are bound and writable is set
newWebSocket(req) ==
  IF req.websocket.t # "socket"
  THEN [result |-> "throw", listeners |-> 0, writable |-> FALSE]
  ELSE [result |-> "instance", listeners |-> 3, writable |-> TRUE]

\* the registry's websocket entry is the class itself: nothing catches
websocket(req) ==
  /\ wsRequests' = Append(wsRequests, req)
  /\ wsOutcomes' = Append(wsOutcomes, newWebSocket(req))
  /\ UNCHANGED <<requests, created>>
  /\ UNCHANGED <<sendVars, configVars, errors, closeVars, inboundVars>>

NewWebSocket ==
  /\ Len(wsRequests) < MaxConstructions
  /\ \E sock \in RequestSockets : websocket([websocket |-> sock])

NextFactory == Polling \/ NewWebSocket

SpecFactory == Init /\ [][NextFactory]_vars

(* ============================== claims ================================ *)
\* the write invocations caused by send call b, as positions of wire
WritesOf(b) == { k \in 1..Len(wire) : wire[k].cb.batch = b }

\* the completion callback of the last packet of send call b fired with success
FinalOk(b) ==
  \E k \in WritesOf(b) : wire[k].cb.isLast /\ cbStatus[k] = "ok"

\* every send call so far was made while writable was true (section 5 of the
\* specification: the upper layer must not call send until writable is true)
Cooperative == \A b \in 1..Len(sends) : sends[b].writable

\* C1: a send call with N packets causes exactly N write invocations on the
\* channel, in the order of the packets, whatever paths they take and whatever
\* the completion callbacks report afterwards (nothing retried, skipped or
\* duplicated).
C1_WritesInOrder ==
  /\ \A b \in 1..Len(sends) :
       /\ Cardinality(WritesOf(b)) = Len(sends[b].packets)
       /\ \A k \in WritesOf(b) : wire[k].cb.i \in 0..(Len(sends[b].packets) - 1)
  /\ \A k1, k2 \in 1..Len(wire) :
       k1 < k2 =>
         \/ wire[k1].cb.batch < wire[k2].cb.batch
         \/ wire[k1].cb.batch = wire[k2].cb.batch /\ wire[k1].cb.i < wire[k2].cb.i
  /\ \A k \in 1..Len(wire) : wire[k].cb.batch \in 1..Len(sends)

\* a batch of at least two packets that took both the socket send and the
\* raw-frame path, one of whose completion callbacks reported an error
C1_Witness ==
  \E b \in 1..Len(sends) :
    /\ Len(sends[b].packets) >= 2
    /\ \E k1, k2 \in WritesOf(b) : wire[k1].via = "send" /\ wire[k2].via = "sendFrame"
    /\ \E k \in WritesOf(b) : cbStatus[k] = "err"

\* C2: writable is false right after a send call; it turns true only in the
\* step in which the completion callback of a batch's last packet fires with
\* success, and under cooperative use (send only while writable) that batch is
\* the one just sent; a last callback that reports an error leaves it false.
C2_WritableAfterSend ==
  /\ [][ /\ Len(sends') > Len(sends) => ~writable'
         /\ (~writable /\ writable') =>
              \E k \in 1..Len(wire) :
                /\ wire[k].cb.isLast
                /\ cbStatus[k] = "pending" /\ cbStatus'[k] = "ok" ]_vars
  /\ [](Cooperative /\ sends # <<>> /\ writable => FinalOk(Len(sends)))
  /\ [](Cooperative =>
          \A k \in WritesOf(Len(sends)) :
            wire[k].cb.isLast /\ cbStatus[k] = "err" => ~writable)

\* a second batch, sent after the first one released writable, whose last
\* callback reported an error
C2_Witness ==
  /\ Cooperative
  /\ Len(sends) = 2
  /\ ~writable
  /\ \E k \in WritesOf(2) : wire[k].cb.isLast /\ cbStatus[k] = "err"

\* C3 (as stated): writable is false exactly when some packet handed to send
\* has not yet been acknowledged as sent.
C3_AsStated ==
  ~writable <=> \E k \in 1..Len(wire) : cbStatus[k] = "pending"

\* C3 (amended): writable is true from construction to the first send call
\* and, as long as send is called only while writable is true, it is false
\* exactly when the most recent send call has no last packet whose completion
\* callback fired with success.
C3_WritableIffReleased ==
  Cooperative => (writable <=> (sends = <<>> \/ FinalOk(Len(sends))))

\* writable is true again while an earlier packet of the batch is still
\* unacknowledged (the last packet's callback fired first)
C3_Witness ==
  /\ Cooperative
  /\ sends # <<>>
  /\ writable
  /\ \E k \in WritesOf(Len(sends)) : cbStatus[k] = "pending"

\* C4: per send call "drain" is emitted at most once, and only once the
\* completion callback of the batch's last packet has fired with success.
C4_DrainOncePerBatch ==
  /\ \A d \in 1..Len(drains) : drains[d].batch \in 1..Len(sends)
  /\ \A b \in 1..Len(sends) :
       LET ds == { d \in 1..Len(drains) : drains[d].batch = b }
       IN /\ Cardinality(ds) <= 1
          /\ ds # {} => FinalOk(b)

\* a batch of two or more packets, all acknowledged, with its one drain
C4_Witness ==
  \E b \in 1..Len(sends) :
    /\ Len(sends[b].packets) >= 2
    /\ \A k \in WritesOf(b) : cbStatus[k] = "ok"
    /\ Cardinality({ d \in 1..Len(drains) : drains[d].batch = b }) = 1

\* the packet at 0-based position i of send call b, and its write invocations
PacketAt(b, i) == sends[b].packets[i + 1]
WritesFor(b, i) == { k \in WritesOf(b) : wire[k].cb.i = i }
CodecCalls(b, i) == { c \in 1..Len(codec) : codec[c].batch = b /\ codec[c].i = i }
PacketPositions ==
  UNION { { <<b, i>> : i \in 0..(Len(sends[b].packets) - 1) } : b \in 1..Len(sends) }
HasPreEncodedString(p) == p.options.t = "object" /\ p.options.wsPreEncoded.t = "string"

\* C5: on the standard send path, with perMessageDeflate set and a payload
\* whose byte length is below its threshold, the compress option handed to the
\* channel is false, whatever the packet asked for.
C5_ThresholdForcesNoCompress ==
  \A k \in 1..Len(wire) :
    LET deflate == sends[wire[k].cb.batch].deflate
        bytes == IF wire[k].data.t = "string" THEN Utf8Bytes(wire[k].data.v)
                 ELSE Len(wire[k].data.v)
    IN (wire[k].via = "send" /\ deflate.enabled /\ bytes < deflate.threshold)
         => (wire[k].opts.passed /\ wire[k].opts.compress = "boolean"
             /\ wire[k].opts.value = <<0>>)

\* a packet that asked for compress = true, sent below the threshold with
\* compress = false
C5_Witness ==
  \E k \in 1..Len(wire) :
    LET b == wire[k].cb.batch
    IN /\ wire[k].via = "send"
       /\ sends[b].deflate.enabled
       /\ Len(wire[k].data.v) > 0
       /\ PacketAt(b, wire[k].cb.i).options.t = "object"
       /\ PacketAt(b, wire[k].cb.i).options.compress = JsTrue
       /\ wire[k].opts.value = <<0>>

\* C6: a packet whose options.wsPreEncoded is a string is written with the
\* socket's send, with exactly that string as payload; the codec is not
\* invoked for it and raw-frame injection is not used, even when the packet
\* carries wsPreEncodedFrame and the fast path is available.
C6_PreEncodedFirst ==
  \A pos \in PacketPositions :
    LET b == pos[1]
        i == pos[2]
        p == PacketAt(b, i)
    IN HasPreEncodedString(p) =>
         /\ Cardinality(WritesFor(b, i)) = 1
         /\ \A k \in WritesFor(b, i) :
              wire[k].via = "send" /\ wire[k].data = p.options.wsPreEncoded
         /\ CodecCalls(b, i) = {}

\* an empty pre-encoded string sent verbatim although the packet carries a
\* frame, compression is off and the socket has a callable sendFrame
C6_Witness ==
  \E pos \in PacketPositions :
    LET p == PacketAt(pos[1], pos[2])
    IN /\ HasPreEncodedString(p)
       /\ p.options.wsPreEncoded.v = <<>>
       /\ p.options.wsPreEncodedFrame = Frame1
       /\ ~sends[pos[1]].deflate.enabled
       /\ socket = "function"
       /\ \E k \in WritesFor(pos[1], pos[2]) : wire[k].via = "send"

\* C7: a packet without a wsPreEncoded string is written by raw-frame
\* injection, with neither the codec nor the socket's send, when compression
\* is off, the socket has a callable sendFrame and wsPreEncodedFrame is not
\* undefined; otherwise it goes through the codec and the socket's send, and
\* sendFrame is not invoked.
C7_FastPathEligibility ==
  \A pos \in PacketPositions :
    LET b == pos[1]
        i == pos[2]
        p == PacketAt(b, i)
        frame == IF p.options.t = "object" THEN p.options.wsPreEncodedFrame ELSE Undefined
        eligible == /\ ~sends[b].deflate.enabled
                    /\ socket = "function"
                    /\ frame.t # "undefined"
    IN ~HasPreEncodedString(p) =>
         /\ Cardinality(WritesFor(b, i)) = 1
         /\ \A k \in WritesFor(b, i) :
              IF eligible
              THEN wire[k].via = "sendFrame" /\ wire[k].data = frame /\ CodecCalls(b, i) = {}
              ELSE /\ wire[k].via = "send"
                   /\ Cardinality(CodecCalls(b, i)) = 1
                   /\ wire[k].data = encodePacket(p, supportsBinary)

\* a packet that carries a frame and is sent through the codec because
\* compression is enabled, on a socket with a callable sendFrame
C7_Witness ==
  \E pos \in PacketPositions :
    LET p == PacketAt(pos[1], pos[2])
    IN /\ ~HasPreEncodedString(p)
       /\ p.options.t = "object"
       /\ p.options.wsPreEncodedFrame = Frame1
       /\ socket = "function"
       /\ sends[pos[1]].deflate.enabled
       /\ \E k \in WritesFor(pos[1], pos[2]) : wire[k].via = "send"

\* C8: the polling constructor produces the JSONP variant exactly for the
\* requests whose query attribute j is a string, the plain variant for all
\* others, request by request.
C8_PollingByRequest ==
  /\ Len(created) = Len(requests)
  /\ \A r \in 1..Len(requests) :
       /\ created[r].req = requests[r]
       /\ created[r].variant = (IF requests[r].query.j.t = "string" THEN "JSONP" ELSE "XHR")

\* a JSONP instance for an empty j, then a plain one for a repeated j
C8_Witness ==
  /\ Len(created) >= 2
  /\ requests[1].query.j = Str(<<>>) /\ created[1].variant = "JSONP"
  /\ requests[2].query.j.t = "array" /\ created[2].variant = "XHR"

\* C9: each doClose call invokes socket.close() exactly once and, when a
\* callback was given, that callback exactly once, within the call; "close"
\* events of the socket invoke neither.
C9_DoCloseOnce ==
  [][ IF Len(doCloses') = Len(doCloses) + 1
      THEN /\ closeCalls' = closeCalls + 1
           /\ fnCalls' = fnCalls + (IF doCloses'[Len(doCloses')].t = "function" THEN 1 ELSE 0)
      ELSE closeCalls' = closeCalls /\ fnCalls' = fnCalls ]_vars

\* doClose called with and without a callback, and the socket emitted "close"
C9_Witness ==
  /\ Len(doCloses) = 2
  /\ doCloses[1] = JsFunction /\ doCloses[2] = Undefined
  /\ closeEvents >= 1
  /\ closeCalls = 2 /\ fnCalls = 1

\* C10: the base close handler is invoked at most once, however doClose calls
\* and "close" events of the socket interleave.
C10_CloseHandlerOnce == onCloseCalls <= 1

\* two "close" events and a doClose call, the handler invoked once
C10_Witness ==
  /\ closeEvents >= 2
  /\ Len(doCloses) >= 1
  /\ onCloseCalls = 1

\* C11: every completion callback that reports an error, for a last packet or
\* an earlier one, on either write path, and every "error" event of the
\* socket invokes the transport's error handler.
C11_NoErrorSwallowed ==
  /\ \A k \in 1..Len(wire) :
       cbStatus[k] = "err" =>
         \E e \in 1..Len(errors) : errors[e].msg = "write error" /\ errors[e].from = k
  /\ Cardinality(SocketErrors) >= errorEvents

\* a failed raw-frame write that is not the last of its batch, a failed last
\* write through the socket's send, and an "error" event
C11_Witness ==
  /\ errorEvents >= 1
  /\ \E k1, k2 \in 1..Len(wire) :
       /\ cbStatus[k1] = "err" /\ ~wire[k1].cb.isLast /\ wire[k1].via = "sendFrame"
       /\ cbStatus[k2] = "err" /\ wire[k2].cb.isLast /\ wire[k2].via = "send"

\* C12: constructing the websocket transport from a request without an
\* upgraded socket ends in a thrown error that reaches the caller of the
\* registry; no transport instance results.
C12_NoSocketThrows ==
  /\ Len(wsOutcomes) = Len(wsRequests)
  /\ \A r \in 1..Len(wsRequests) :
       wsRequests[r].websocket.t \in {"undefined", "null"} =>
         wsOutcomes[r].result = "throw" /\ wsOutcomes[r].listeners = 0

\* a construction without socket that threw, after one with a socket that
\* returned an instance
C12_Witness ==
  /\ Len(wsRequests) >= 2
  /\ wsRequests[1].websocket = JsSocket /\ wsOutcomes[1].result = "instance"
  /\ wsRequests[2].websocket = Undefined /\ wsOutcomes[2].result = "throw"

\* C13 as stated: over any sequence of "error" and "close" events the error
\* path is invoked at most once.
C13_AsStated == Len(errors) <= 1

\* C13: every "error" event of the socket invokes the error path exactly
\* once, so k events give k reports, and a "close" event causes no report.
C13_ErrorPerEvent ==
  /\ [](Len(errors) = errorEvents /\ Cardinality(SocketErrors) = errorEvents)
  /\ [][closeEvents' # closeEvents => errors' = errors]_vars

\* two "error" events, both reported, and a "close" event handled
C13_Witness ==
  /\ errorEvents = 2 /\ Len(errors) = 2
  /\ closeEvents >= 1 /\ onCloseCalls = 1

\* C14: a batch handed to send never leaves writable false forever when none
\* of its packets fails: once every completion callback of the most recent
\* batch has fired with success (after which no step of the transport can
\* change writable), writable is true and the batch's "drain" was emitted.
C14_ReleasedWhenNoneFails ==
  (/\ Cooperative
   /\ sends # <<>>
   /\ \A k \in WritesOf(Len(sends)) : cbStatus[k] = "ok")
  => /\ writable
     /\ \E d \in 1..Len(drains) : drains[d].batch = Len(sends)

PacketOptionRefs ==
  { sends[b].optionRefs[i + 1] : <<b, i>> \in PacketPositions } \ {0}

\* C15: every write of a batch is handed an options object of its own, made
\* by send: no two writes share one, none is a packet's own options object,
\* it carries the packet's compress flag (or false where the threshold rule
\* applies, or nothing when the packet has no options), and the packets' own
\* options objects are as the caller passed them.
C15_FreshOptions ==
  /\ \A k1, k2 \in 1..Len(wire) :
       (k1 # k2 /\ wire[k1].opts.passed /\ wire[k2].opts.passed)
         => wire[k1].ref # wire[k2].ref
  /\ \A k \in 1..Len(wire) :
       wire[k].opts.passed =>
         LET p == PacketAt(wire[k].cb.batch, wire[k].cb.i)
             deflate == sends[wire[k].cb.batch].deflate
             forced == deflate.enabled /\ Utf8Bytes(wire[k].data.v) < deflate.threshold
         IN /\ wire[k].ref \in 1..Len(heap)
            /\ wire[k].ref \notin PacketOptionRefs
            /\ heap[wire[k].ref].kind = "opts"
            /\ IF forced
               THEN wire[k].opts.compress = "boolean" /\ wire[k].opts.value = <<0>>
               ELSE IF p.options.t = "object"
               THEN /\ wire[k].opts.compress = p.options.compress.t
                    /\ wire[k].opts.value = p.options.compress.v
               ELSE wire[k].opts.compress = "absent"
  /\ \A <<b, i>> \in PacketPositions :
       LET r == sends[b].optionRefs[i + 1]
       IN r # 0 => heap[r] = OptionsObject(PacketAt(b, i).options)

\* a batch of two packets, both asking for compression, both written below
\* the threshold with compress = false
C15_Witness ==
  /\ Len(wire) = 2
  /\ sends[1].deflate.enabled
  /\ \A k \in 1..2 :
       /\ PacketAt(1, k - 1).options.t = "object"
       /\ PacketAt(1, k - 1).options.compress = JsTrue
       /\ wire[k].opts.value = <<0>>

\* the text the bytes of a received payload stand for: "a" and "e acute"
TextOfBytes(bytes) ==
  IF bytes = <<97>> THEN <<97>> ELSE IF bytes = <<195, 169>> THEN <<233>> ELSE <<>>

\* C16: every "message" event of the socket gives exactly one call of the
\* inbound-data handler, in the order of the events, with the payload itself
\* when the binary flag is set and with the payload decoded as text
\* otherwise; handling a message never changes writable nor emits "drain".
C16_MessageToData ==
  /\ [](/\ Len(dataLog) = Len(messages)
        /\ \A m \in 1..Len(messages) :
             IF messages[m].isBinary
             THEN dataLog[m] = messages[m].data
             ELSE dataLog[m] = Str(TextOfBytes(messages[m].data.v)))
  /\ [][messages' # messages => (writable' = writable /\ drains' = drains)]_vars

\* a text message of two bytes and a binary message, received while a batch
\* is unacknowledged and writable is false
C16_Witness ==
  /\ ~writable
  /\ Len(messages) = 2
  /\ ~messages[1].isBinary /\ messages[1].data = Buf(<<195, 169>>)
  /\ dataLog[1] = Str(<<233>>)
  /\ messages[2].isBinary /\ dataLog[2] = messages[2].data

\* C17: whenever "drain" is emitted writable is already true, and a "drain"
\* listener that calls send synchronously enters send with writable true and
\* leaves the transport with writable false.
C17_WritableBeforeDrain ==
  /\ [](\A d \in 1..Len(drains) : drains[d].writable)
  /\ [][(drains' # drains /\ sends' # sends)
          => (sends'[Len(sends')].writable /\ ~writable')]_vars

\* a batch sent from inside the "drain" notification of the batch before it,
\* still unacknowledged
C17_Witness ==
  /\ Len(sends) = 2
  /\ Len(drains) = 1 /\ drains[1].batch = 1 /\ drains[1].writable
  /\ sends[2].writable
  /\ ~writable
  /\ \A k \in WritesOf(2) : cbStatus[k] = "pending"
  /\ WritesOf(2) # {}

\* C18: the completion callback of a packet that is not the last of its batch
\* never changes writable and never emits "drain", whatever it reports; a
\* failure it reports does not keep the last packet's success from releasing
\* writable and emitting the batch's "drain".
C18_NonFinalCallbacks ==
  /\ [][(\E k \in 1..Len(wire) :
           /\ ~wire[k].cb.isLast
           /\ cbStatus[k] = "pending"
           /\ cbStatus'[k] # "pending")
          => (writable' = writable /\ drains' = drains)]_vars
  /\ [](\A b \in 1..Len(sends) :
          FinalOk(b) =>
            /\ \E d \in 1..Len(drains) : drains[d].batch = b
            /\ (Cooperative /\ b = Len(sends)) => writable)

\* a batch whose first packet failed and whose last packet succeeded:
\* writable is true and the batch's "drain" was emitted
C18_Witness ==
  /\ Cooperative
  /\ writable
  /\ \E k1, k2 \in WritesOf(Len(sends)) :
       /\ ~wire[k1].cb.isLast /\ cbStatus[k1] = "err"
       /\ wire[k2].cb.isLast /\ cbStatus[k2] = "ok"
  /\ \E d \in 1..Len(drains) : drains[d].batch = Len(sends)

\* the callbacks fired so far are those of a prefix of the write invocations
InDispatchOrder ==
  \A k1, k2 \in 1..Len(wire) :
    (k1 < k2 /\ cbStatus[k2] # "pending") => cbStatus[k1] # "pending"

BatchesInFlight ==
  { b \in 1..Len(sends) : \E k \in WritesOf(b) : cbStatus[k] = "pending" }

\* C19: when send is called only while writable is true and the channel
\* fires the callbacks in the order of the writes, at most one batch has
\* callbacks that have not fired; the writes of a batch all precede the
\* writes of the next batch.
C19_OneBatchInFlight ==
  /\ (Cooperative /\ InDispatchOrder) => Cardinality(BatchesInFlight) <= 1
  /\ \A k1, k2 \in 1..Len(wire) : k1 < k2 => wire[k1].cb.batch <= wire[k2].cb.batch

\* a second batch in flight after a first batch of two packets was
\* acknowledged in order
C19_Witness ==
  /\ Cooperative /\ InDispatchOrder
  /\ Len(sends) = 2
  /\ Cardinality(WritesOf(1)) = 2
  /\ BatchesInFlight = {2}

\* C20: a packet with a pre-encoded string is written through the socket's
\* send with an options record, and the threshold rule applies to the
\* pre-encoded string (compress is false when its byte length is below the
\* threshold, the packet's own flag otherwise); a raw-frame injection is given
\* the frame and the callback only, no options record.
C20_PreEncodedThreshold ==
  \A k \in 1..Len(wire) :
    LET p == PacketAt(wire[k].cb.batch, wire[k].cb.i)
        deflate == sends[wire[k].cb.batch].deflate
    IN /\ HasPreEncodedString(p) =>
            /\ wire[k].via = "send"
            /\ wire[k].opts.passed
            /\ IF deflate.enabled /\ Utf8Bytes(p.options.wsPreEncoded.v) < deflate.threshold
               THEN wire[k].opts.compress = "boolean" /\ wire[k].opts.value = <<0>>
               ELSE /\ wire[k].opts.compress = p.options.compress.t
                    /\ wire[k].opts.value = p.options.compress.v
       /\ wire[k].via = "sendFrame" =>
            /\ ~wire[k].opts.passed
            /\ wire[k].ref = 0
            /\ wire[k].data = p.options.wsPreEncodedFrame

\* a pre-encoded string of two bytes whose packet asked for compression,
\* written below the threshold with compress = false although the packet also
\* carries a pre-encoded frame
C20_Witness ==
  \E k \in 1..Len(wire) :
    LET p == PacketAt(wire[k].cb.batch, wire[k].cb.i)
    IN /\ HasPreEncodedString(p)
       /\ p.options.wsPreEncoded = Str(<<233>>)
       /\ p.options.compress = JsTrue
       /\ p.options.wsPreEncodedFrame = Frame1
       /\ sends[wire[k].cb.batch].deflate.enabled
       /\ wire[k].via = "send"
       /\ wire[k].opts.value = <<0>>

====
